---- MODULE Spec2Model ----
(***************************************************************************)
(* State-machine model of the SecretSphere confidential lottery contract   *)
(* (contracts/SecretSphere.sol).                                           *)
(*                                                                         *)
(* Ciphertexts are modelled as handles (positive naturals, 0 is the        *)
(* uninitialised bytes32 handle) into the sequence `plain`, which holds    *)
(* the plaintext every handle decrypts to.  An euint32 plaintext is kept   *)
(* as a pair <<hi, lo>> of 16-bit limbs (value = hi * 65536 + lo), so that *)
(* the full 32-bit width, including wrap-around of FHE.add, is modelled.   *)
(* The access-control list of the FHE runtime is the set `acl` of          *)
(* <<handle, identity>> pairs.  Ether amounts are counted in units of      *)
(* 10^13 wei.                                                              *)
(***************************************************************************)
EXTENDS Integers, Sequences, FiniteSets, TLC

\* ---------------------------------------------------------------- bounds
\* successful purchases and draws (emitted events) explored per behaviour
MaxEvents == 4

\* ------------------------------------------------------------- constants
\* 0.001 ether, in units of 10^13 wei
TICKET_PRICE == 100
\* one 16-bit limb
Limb == 65536

\* ------------------------------------------------------------ identities
Deployer == "deployer"
Alice == "alice"
Bob == "bob"
Addr == {Deployer, Alice, Bob}
NullAddress == "0x0"
\* identities that submit transactions, and withdrawal recipients
Callers == {Deployer, Alice}
Recipients == {Bob, NullAddress}
This == "this"

\* --------------------------------------------------------- revert reasons
OK == "ok"
InvalidPayment == "Ticket price is 0.001 ether"
TicketAlreadyActive == "Active ticket in progress"
ProofInvalid == "ProofInvalid"
NoActiveTicket == "No active ticket"
NotOwner == "Only owner"
InvalidRecipient == "Invalid recipient"
InsufficientBalance == "Insufficient balance"
TransferFailed == "Withdraw failed"

\* ------------------------------------------------------ euint32 plaintexts
U32(n) == <<n \div Limb, n % Limb>>

\* FHE.add on euint32: addition modulo 2^32
FHE_add(a, b) ==
    LET lo == a[2] + b[2]
        hi == a[1] + b[1] + (lo \div Limb)
    IN  <<hi % Limb, lo % Limb>>

\* FHE.rem on euint32 by a plaintext scalar m (long division over the limbs)
FHE_rem(a, m) == U32((((a[1] % m) * Limb) + a[2]) % m)

FHE_eq(a, b) == a = b

FHE_select(c, x, y) == IF c THEN x ELSE y

\* the sum of two plaintexts without the 32-bit wrap (hi limb unbounded)
ExactAdd(a, b) ==
    LET lo == a[2] + b[2]
    IN  <<a[1] + b[1] + (lo \div Limb), lo % Limb>>

\* a <= b on limb pairs
U32Leq(a, b) == a[1] < b[1] \/ (a[1] = b[1] /\ a[2] <= b[2])

\* ----------------------------------------------------------- input sets
\* pairs of plaintexts a client may encrypt as its two guesses (the contract
\* never sees them, so values outside 1..9 can be submitted)
TicketSamples == {<<U32(1), U32(1)>>, <<U32(4), U32(10)>>}
\* outputs of FHE.randEuint32 explored in the state machine
RawSamples == {<<0, 0>>, <<65535, 65535>>}
Payments == {0, TICKET_PRICE - 1, TICKET_PRICE, TICKET_PRICE + 1}

\* players .. balance : the contract's storage and its ether balance
\* plain, acl         : the FHE runtime (plaintext behind each handle, grants)
\* events             : the event log
\* lastOp             : the last transaction submitted and how it ended
\* drawn, rewardSum   : history: successful draws per player and the exact
\*                      (unwrapped) sum of the rewards computed in them
\* minter             : history: for each handle, the sender of the transaction
\*                      that created it
\* seed               : pending outputs of the random source when a behaviour
\*                      fixes them in advance (<<>> when they are free)
\* received           : ether each address has been sent by withdraw
\* ui                 : the React state of the frontend opened by one player
VARIABLES players, totalTickets, totalDraws, balance, plain, acl, events,
          lastOp, drawn, rewardSum, minter, seed, received, ui

vars == <<players, totalTickets, totalDraws, balance, plain, acl, events,
          lastOp, drawn, rewardSum, minter, seed, received, ui>>

owner == Deployer

PlayerState0 ==
    [firstGuess |-> 0, secondGuess |-> 0, encryptedPoints |-> 0,
     lastWinningFirst |-> 0, lastWinningSecond |-> 0,
     hasTicket |-> FALSE, hasResult |-> FALSE, hasPoints |-> FALSE]

NoOp == [op |-> "constructor", caller |-> Deployer, result |-> OK]

\* the component's state when it mounts: nothing fetched, nothing decrypted,
\* no handler running (<<>> stands for null)
UI0 ==
    [pc |-> "idle",
     status |-> <<FALSE, FALSE, FALSE>>,
     pointsData |-> <<0, FALSE>>,
     resultData |-> <<0, 0, FALSE>>,
     decryptedPoints |-> <<>>,
     decryptedWinning |-> <<>>,
     pointsRequest |-> <<>>,
     resultsRequest |-> <<>>]

Init ==
    /\ players = [a \in Addr |-> PlayerState0]
    /\ totalTickets = 0
    /\ totalDraws = 0
    /\ balance = 0
    /\ plain = <<>>
    /\ acl = {}
    /\ events = <<>>
    /\ lastOp = NoOp
    /\ drawn = [a \in Addr |-> 0]
    /\ rewardSum = [a \in Addr |-> U32(0)]
    /\ minter = <<>>
    /\ seed = <<>>
    /\ received = [a \in Addr |-> 0]
    /\ ui = UI0

\* plaintext of a handle (what user decryption returns to an allowed identity)
Decrypt(h) == IF h = 0 THEN U32(0) ELSE plain[h]

\* ------------------------------------------------------------- buyTicket
\* buyTicket without the active-ticket requirement
buyTicketCheck_noActiveCheck(sender, value, proofValid) ==
    IF value # TICKET_PRICE THEN InvalidPayment
    ELSE IF ~proofValid THEN ProofInvalid
    ELSE OK

\* buyTicket requiring at least, instead of exactly, the ticket price
buyTicketCheck_minPrice(sender, value, proofValid) ==
    IF value < TICKET_PRICE THEN InvalidPayment
    ELSE IF players[sender].hasTicket THEN TicketAlreadyActive
    ELSE IF ~proofValid THEN ProofInvalid
    ELSE OK

\* buyTicket importing the ciphertexts before its two requirements
buyTicketCheck_proofFirst(sender, value, proofValid) ==
    IF ~proofValid THEN ProofInvalid
    ELSE IF value # TICKET_PRICE THEN InvalidPayment
    ELSE IF players[sender].hasTicket THEN TicketAlreadyActive
    ELSE OK

buyTicketCheck(sender, value, proofValid) ==
    IF value # TICKET_PRICE THEN InvalidPayment
    ELSE IF players[sender].hasTicket THEN TicketAlreadyActive
    ELSE IF ~proofValid THEN ProofInvalid
    ELSE OK

\* buyTicket leaving the result flag as it was
buyTicketRecord_keepResult(player, encryptedFirst, encryptedSecond) ==
    [player EXCEPT !.firstGuess = encryptedFirst,
                   !.secondGuess = encryptedSecond,
                   !.hasTicket = TRUE]

\* buyTicket clearing the points flag along with the result flag
buyTicketRecord_resetPoints(player, encryptedFirst, encryptedSecond) ==
    [player EXCEPT !.firstGuess = encryptedFirst,
                   !.secondGuess = encryptedSecond,
                   !.hasTicket = TRUE,
                   !.hasResult = FALSE,
                   !.hasPoints = FALSE]

\* buyTicket storing the two imported ciphertexts in each other's field
buyTicketRecord_swapped(player, encryptedFirst, encryptedSecond) ==
    [player EXCEPT !.firstGuess = encryptedSecond,
                   !.secondGuess = encryptedFirst,
                   !.hasTicket = TRUE,
                   !.hasResult = FALSE]

buyTicketRecord(player, encryptedFirst, encryptedSecond) ==
    [player EXCEPT !.firstGuess = encryptedFirst,
                   !.secondGuess = encryptedSecond,
                   !.hasTicket = TRUE,
                   !.hasResult = FALSE]

buyTicketGrants(encryptedFirst, encryptedSecond, sender) ==
    {<<encryptedFirst, This>>, <<encryptedSecond, This>>,
     <<encryptedFirst, sender>>, <<encryptedSecond, sender>>}

\* buyTicket that stores the ticket without counting it
BuyTicket_noCount(sender, value, ticket, boundTo) ==
    LET proofValid == boundTo = sender
        result == buyTicketCheck(sender, value, proofValid)
        encryptedFirst == Len(plain) + 1
        encryptedSecond == Len(plain) + 2
    IN  /\ lastOp' = [op |-> "buyTicket", caller |-> sender, result |-> result]
        /\ UNCHANGED <<seed, received>>
        /\ IF result = OK
           THEN /\ Len(events) < MaxEvents
                /\ plain' = plain \o ticket
                /\ minter' = minter \o <<sender, sender>>
                /\ players' = [players EXCEPT ![sender] =
                                  buyTicketRecord(@, encryptedFirst, encryptedSecond)]
                /\ acl' = acl \cup buyTicketGrants(encryptedFirst, encryptedSecond, sender)
                /\ balance' = balance + value
                /\ events' = Append(events, <<"TicketPurchased", sender>>)
                /\ UNCHANGED <<totalTickets, totalDraws, drawn, rewardSum>>
           ELSE UNCHANGED <<players, totalTickets, totalDraws, balance, plain,
                            acl, events, drawn, rewardSum, minter>>

BuyTicket(sender, value, ticket, boundTo) ==
    LET proofValid == boundTo = sender
        result == buyTicketCheck(sender, value, proofValid)
        encryptedFirst == Len(plain) + 1
        encryptedSecond == Len(plain) + 2
    IN  /\ lastOp' = [op |-> "buyTicket", caller |-> sender, result |-> result]
        /\ UNCHANGED <<seed, received>>
        /\ IF result = OK
           THEN /\ Len(events) < MaxEvents
                /\ plain' = plain \o ticket
                /\ minter' = minter \o <<sender, sender>>
                /\ players' = [players EXCEPT ![sender] =
                       buyTicketRecord(@, encryptedFirst, encryptedSecond)]
                /\ acl' = acl \cup buyTicketGrants(encryptedFirst, encryptedSecond, sender)
                /\ totalTickets' = totalTickets + 1
                /\ balance' = balance + value
                /\ events' = Append(events, <<"TicketPurchased", sender>>)
                /\ UNCHANGED <<totalDraws, drawn, rewardSum>>
           ELSE UNCHANGED <<players, totalTickets, totalDraws, balance, plain,
                            acl, events, drawn, rewardSum, minter>>

\* ------------------------------------------------------------- startDraw
\* the bounded digit without the shift from 0..8 to 1..9
_randomTicketNumber_noOffset(raw) == FHE_rem(raw, 9)

_randomTicketNumber(raw) == FHE_add(FHE_rem(raw, 9), U32(1))

\* reward computation that lets the first guess match either winning digit
_calculateReward_anyPosition(guessOne, guessTwo, winningFirst, winningSecond) ==
    LET firstMatch == FHE_eq(guessOne, winningFirst) \/ FHE_eq(guessOne, winningSecond)
        secondMatch == FHE_eq(guessTwo, winningSecond)
        matches == FHE_add(FHE_select(firstMatch, U32(1), U32(0)),
                           FHE_select(secondMatch, U32(1), U32(0)))
        doubleMatch == FHE_eq(matches, U32(2))
        singleMatch == FHE_eq(matches, U32(1))
    IN  FHE_select(doubleMatch, U32(1000),
                   FHE_select(singleMatch, U32(100), U32(0)))

\* reward computation that pays the jackpot on top of the single-match reward
_calculateReward_cumulative(guessOne, guessTwo, winningFirst, winningSecond) ==
    LET firstMatch == FHE_eq(guessOne, winningFirst)
        secondMatch == FHE_eq(guessTwo, winningSecond)
        matches == FHE_add(FHE_select(firstMatch, U32(1), U32(0)),
                           FHE_select(secondMatch, U32(1), U32(0)))
        doubleMatch == FHE_eq(matches, U32(2))
        anyMatch == ~FHE_eq(matches, U32(0))
    IN  FHE_add(FHE_select(doubleMatch, U32(1000), U32(0)),
                FHE_select(anyMatch, U32(100), U32(0)))

_calculateReward(guessOne, guessTwo, winningFirst, winningSecond) ==
    LET firstMatch == FHE_eq(guessOne, winningFirst)
        secondMatch == FHE_eq(guessTwo, winningSecond)
        matches == FHE_add(FHE_select(firstMatch, U32(1), U32(0)),
                           FHE_select(secondMatch, U32(1), U32(0)))
        doubleMatch == FHE_eq(matches, U32(2))
        singleMatch == FHE_eq(matches, U32(1))
    IN  FHE_select(doubleMatch, U32(1000),
                   FHE_select(singleMatch, U32(100), U32(0)))

\* startDraw that also accepts a player whose last ticket already has a result
startDrawCheck_orResult(sender) ==
    IF ~players[sender].hasTicket /\ ~players[sender].hasResult
    THEN NoActiveTicket ELSE OK

\* startDraw that asks whether any ticket is outstanding, not the caller's
startDrawCheck_anyTicket(sender) ==
    IF totalTickets = totalDraws THEN NoActiveTicket ELSE OK

startDrawCheck(sender) ==
    IF ~players[sender].hasTicket THEN NoActiveTicket ELSE OK

\* startDraw that stores the winning digits without consuming the ticket
startDrawRecord_keepTicket(player, winningFirst, winningSecond) ==
    [player EXCEPT !.lastWinningFirst = winningFirst,
                   !.lastWinningSecond = winningSecond,
                   !.hasResult = TRUE]

\* startDraw that wipes the guesses of the ticket it consumes
startDrawRecord_clearGuesses(player, winningFirst, winningSecond) ==
    [player EXCEPT !.lastWinningFirst = winningFirst,
                   !.lastWinningSecond = winningSecond,
                   !.firstGuess = 0,
                   !.secondGuess = 0,
                   !.hasTicket = FALSE,
                   !.hasResult = TRUE]

startDrawRecord(player, winningFirst, winningSecond) ==
    [player EXCEPT !.lastWinningFirst = winningFirst,
                   !.lastWinningSecond = winningSecond,
                   !.hasTicket = FALSE,
                   !.hasResult = TRUE]

\* plaintext of the points after accrual of `reward`
accruePoints(hasPoints, points, reward) ==
    IF hasPoints THEN FHE_add(points, reward) ELSE reward

\* the record after accrual: `reward` is the handle of the reward of this draw,
\* `sum` the handle of FHE.add(player.encryptedPoints, reward)
startDrawAccrue(player, reward, sum) ==
    IF player.hasPoints
    THEN [player EXCEPT !.encryptedPoints = sum]
    ELSE [player EXCEPT !.encryptedPoints = reward, !.hasPoints = TRUE]

\* grants of one draw with the points granted to the contract owner
startDrawGrants_toOwner(winningFirst, winningSecond, reward, encryptedPoints, sender) ==
    {<<winningFirst, This>>, <<winningSecond, This>>,
     <<winningFirst, sender>>, <<winningSecond, sender>>,
     <<encryptedPoints, This>>, <<encryptedPoints, owner>>}

\* grants of one draw with the reward of this draw granted instead of the
\* updated total
startDrawGrants_rewardOnly(winningFirst, winningSecond, reward, encryptedPoints, sender) ==
    {<<winningFirst, This>>, <<winningSecond, This>>,
     <<winningFirst, sender>>, <<winningSecond, sender>>,
     <<reward, This>>, <<reward, sender>>}

\* grants of one draw; `reward` and `encryptedPoints` (the handle now stored in
\* the record) are both in scope, the second one is granted
startDrawGrants(winningFirst, winningSecond, reward, encryptedPoints, sender) ==
    {<<winningFirst, This>>, <<winningSecond, This>>,
     <<winningFirst, sender>>, <<winningSecond, sender>>,
     <<encryptedPoints, This>>, <<encryptedPoints, sender>>}

\* startDraw that computes the reward from the winning digits found in the
\* record when the call starts (those of the previous draw)
StartDraw_staleDigits(sender, raw1, raw2) ==
    LET result == startDrawCheck(sender)
        player == players[sender]
        winningFirst == Len(plain) + 1
        winningSecond == Len(plain) + 2
        rewardHandle == Len(plain) + 3
        sumHandle == Len(plain) + 4
        w1 == _randomTicketNumber(raw1)
        w2 == _randomTicketNumber(raw2)
        reward == _calculateReward(Decrypt(player.firstGuess),
                                   Decrypt(player.secondGuess),
                                   Decrypt(player.lastWinningFirst),
                                   Decrypt(player.lastWinningSecond))
        newPoints == accruePoints(player.hasPoints,
                                  Decrypt(player.encryptedPoints), reward)
        after == startDrawAccrue(startDrawRecord(player, winningFirst, winningSecond),
                                 rewardHandle, sumHandle)
    IN  /\ lastOp' = [op |-> "startDraw", caller |-> sender, result |-> result]
        /\ UNCHANGED <<seed, received>>
        /\ IF result = OK
           THEN /\ Len(events) < MaxEvents
                /\ plain' = plain \o (IF player.hasPoints
                                      THEN <<w1, w2, reward, newPoints>>
                                      ELSE <<w1, w2, reward>>)
                /\ minter' = minter \o (IF player.hasPoints
                                        THEN <<sender, sender, sender, sender>>
                                        ELSE <<sender, sender, sender>>)
                /\ players' = [players EXCEPT ![sender] = after]
                /\ acl' = acl \cup startDrawGrants(winningFirst, winningSecond,
                                                   rewardHandle,
                                                   after.encryptedPoints, sender)
                /\ totalDraws' = totalDraws + 1
                /\ events' = Append(events, <<"DrawCompleted", sender>>)
                /\ drawn' = [drawn EXCEPT ![sender] = @ + 1]
                /\ rewardSum' = [rewardSum EXCEPT ![sender] = ExactAdd(@, reward)]
                /\ UNCHANGED <<totalTickets, balance>>
           ELSE UNCHANGED <<players, totalTickets, totalDraws, balance, plain,
                            acl, events, drawn, rewardSum, minter>>

StartDraw(sender, raw1, raw2) ==
    LET result == startDrawCheck(sender)
        player == players[sender]
        winningFirst == Len(plain) + 1
        winningSecond == Len(plain) + 2
        rewardHandle == Len(plain) + 3
        sumHandle == Len(plain) + 4
        w1 == _randomTicketNumber(raw1)
        w2 == _randomTicketNumber(raw2)
        reward == _calculateReward(Decrypt(player.firstGuess),
                                   Decrypt(player.secondGuess), w1, w2)
        newPoints == accruePoints(player.hasPoints,
                                  Decrypt(player.encryptedPoints), reward)
        after == startDrawAccrue(startDrawRecord(player, winningFirst, winningSecond),
                                 rewardHandle, sumHandle)
    IN  /\ lastOp' = [op |-> "startDraw", caller |-> sender, result |-> result]
        /\ UNCHANGED <<seed, received>>
        /\ IF result = OK
           THEN /\ Len(events) < MaxEvents
                /\ plain' = plain \o (IF player.hasPoints
                                      THEN <<w1, w2, reward, newPoints>>
                                      ELSE <<w1, w2, reward>>)
                /\ minter' = minter \o (IF player.hasPoints
                                        THEN <<sender, sender, sender, sender>>
                                        ELSE <<sender, sender, sender>>)
                /\ players' = [players EXCEPT ![sender] = after]
                /\ acl' = acl \cup startDrawGrants(winningFirst, winningSecond,
                                                   rewardHandle,
                                                   after.encryptedPoints, sender)
                /\ totalDraws' = totalDraws + 1
                /\ events' = Append(events, <<"DrawCompleted", sender>>)
                /\ drawn' = [drawn EXCEPT ![sender] = @ + 1]
                /\ rewardSum' = [rewardSum EXCEPT ![sender] = ExactAdd(@, reward)]
                /\ UNCHANGED <<totalTickets, balance>>
           ELSE UNCHANGED <<players, totalTickets, totalDraws, balance, plain,
                            acl, events, drawn, rewardSum, minter>>

\* -------------------------------------------------------------- withdraw
\* withdraw that validates its arguments before it looks at the caller
withdrawCheck_ownerLast(sender, to, amount, accepts) ==
    IF to = NullAddress THEN InvalidRecipient
    ELSE IF amount > balance THEN InsufficientBalance
    ELSE IF sender # owner THEN NotOwner
    ELSE IF ~accepts THEN TransferFailed
    ELSE OK

\* withdraw that refuses to empty the contract (amount < balance required)
withdrawCheck_strictBalance(sender, to, amount, accepts) ==
    IF sender # owner THEN NotOwner
    ELSE IF to = NullAddress THEN InvalidRecipient
    ELSE IF amount >= balance THEN InsufficientBalance
    ELSE IF ~accepts THEN TransferFailed
    ELSE OK

\* withdraw without the balance requirement
withdrawCheck_noBalanceCheck(sender, to, amount, accepts) ==
    IF sender # owner THEN NotOwner
    ELSE IF to = NullAddress THEN InvalidRecipient
    ELSE IF ~accepts THEN TransferFailed
    ELSE OK

withdrawCheck(sender, to, amount, accepts) ==
    IF sender # owner THEN NotOwner
    ELSE IF to = NullAddress THEN InvalidRecipient
    ELSE IF amount > balance THEN InsufficientBalance
    ELSE IF ~accepts THEN TransferFailed
    ELSE OK

\* withdraw that debits the balance before the transfer and does not undo the
\* debit when the transfer is rejected
Withdraw_debitFirst(sender, to, amount, accepts) ==
    LET result == withdrawCheck(sender, to, amount, accepts)
    IN  /\ lastOp' = [op |-> "withdraw", caller |-> sender, result |-> result]
        /\ balance' = IF result \in {OK, TransferFailed}
                      THEN balance - amount ELSE balance
        /\ received' = IF result = OK
                       THEN [received EXCEPT ![to] = @ + amount]
                       ELSE received
        /\ UNCHANGED <<players, totalTickets, totalDraws, plain, acl, events,
                       drawn, rewardSum, minter, seed>>

Withdraw(sender, to, amount, accepts) ==
    LET result == withdrawCheck(sender, to, amount, accepts)
    IN  /\ lastOp' = [op |-> "withdraw", caller |-> sender, result |-> result]
        /\ balance' = IF result = OK THEN balance - amount ELSE balance
        /\ received' = IF result = OK
                       THEN [received EXCEPT ![to] = @ + amount]
                       ELSE received
        /\ UNCHANGED <<players, totalTickets, totalDraws, plain, acl, events,
                       drawn, rewardSum, minter, seed>>

WithdrawAmounts == {TICKET_PRICE, 2 * TICKET_PRICE}

\* ----------------------------------------------------------------- views
\* The read-only functions, each with the caller (msg.sender) of the call as
\* its first argument; their value is what the call returns.
getTicket(sender, user) ==
    <<players[user].firstGuess, players[user].secondGuess, players[user].hasTicket>>

getLastWinningNumbers(sender, user) ==
    <<players[user].lastWinningFirst, players[user].lastWinningSecond,
      players[user].hasResult>>

\* points readable by the player alone
getEncryptedPoints_selfOnly(sender, user) ==
    IF sender = user
    THEN <<players[user].encryptedPoints, players[user].hasPoints>>
    ELSE <<0, FALSE>>

getEncryptedPoints(sender, user) ==
    <<players[user].encryptedPoints, players[user].hasPoints>>

getPlayerStatus(sender, user) ==
    <<players[user].hasTicket, players[user].hasResult, players[user].hasPoints>>

ticketPrice(sender) == TICKET_PRICE

stats(sender) == <<totalTickets, totalDraws, balance>>

Next ==
    \/ \E sender \in Callers, value \in Payments, ticket \in TicketSamples,
          boundTo \in Callers :
          BuyTicket(sender, value, ticket, boundTo) /\ UNCHANGED ui
    \/ \E sender \in Callers, raw1 \in RawSamples, raw2 \in RawSamples :
          StartDraw(sender, raw1, raw2) /\ UNCHANGED ui
    \/ \E sender \in Callers, to \in Recipients,
          amount \in WithdrawAmounts, accepts \in BOOLEAN :
          Withdraw(sender, to, amount, accepts) /\ UNCHANGED ui

Spec == Init /\ [][Next]_vars

\* ------------------------------------------------ a draw on chosen inputs
\* Behaviours that start right after one successful buyTicket by Alice, with
\* the two outputs the random source is about to return fixed in `seed`;
\* the only step is Alice's startDraw.  Tickets and random outputs range over
\* whole domains here, including the extremes of the 32-bit random source.
DigitValues == {U32(d) : d \in 1..9}
\* guesses a client may encrypt: 0..10, 65539 (low limb 3) and 2^32 - 1
GuessDomain == {U32(a) : a \in 0..10} \cup {<<1, 3>>, <<65535, 65535>>}
TicketDomain == GuessDomain \X GuessDomain
RawResidues == {<<0, r>> : r \in 0..8}
RawWide == {<<h, l>> : h \in {0, 1, 32768, 65535},
                        l \in (0..49) \cup (65486..65535)}
MaxRaw == <<65535, 65535>>

InitDraw ==
    /\ \E ticket \in TicketDomain :
          /\ plain = ticket
          /\ seed \in (RawResidues \X RawResidues)
                      \cup (IF ticket = <<U32(4), U32(4)>>
                            THEN (RawWide \X {MaxRaw}) \cup ({MaxRaw} \X RawWide)
                            ELSE {})
    /\ players = [a \in Addr |-> IF a = Alice
                                 THEN buyTicketRecord(PlayerState0, 1, 2)
                                 ELSE PlayerState0]
    /\ totalTickets = 1
    /\ totalDraws = 0
    /\ balance = TICKET_PRICE
    /\ acl = buyTicketGrants(1, 2, Alice)
    /\ events = << <<"TicketPurchased", Alice>> >>
    /\ lastOp = [op |-> "buyTicket", caller |-> Alice, result |-> OK]
    /\ drawn = [a \in Addr |-> 0]
    /\ rewardSum = [a \in Addr |-> U32(0)]
    /\ minter = <<Alice, Alice>>
    /\ received = [a \in Addr |-> 0]
    /\ ui = UI0

NextDraw == StartDraw(Alice, seed[1], seed[2]) /\ UNCHANGED ui

SpecDraw == InitDraw /\ [][NextDraw]_vars

\* --------------------------------------------- a long-running deployment
\* Behaviours that start from the state reached after Alice has played
\* RoundsPlayed rounds, each with the ticket (1,1) and the winning digits
\* (1,1): her total is RoundsPlayed * 1000 = 4294967000 = 65535 * 65536 + 65240,
\* just below 2^32.  Only the handles still referenced by her record are kept
\* (renumbered 1..5), the event log starts empty at this point, and the owner
\* has withdrawn the whole balance.
RoundsPlayed == 4294967
NearTop == <<65535, 65240>>

InitWrap ==
    /\ players = [a \in Addr |->
                    IF a = Alice
                    THEN [firstGuess |-> 1, secondGuess |-> 2,
                          lastWinningFirst |-> 3, lastWinningSecond |-> 4,
                          encryptedPoints |-> 5, hasTicket |-> FALSE,
                          hasResult |-> TRUE, hasPoints |-> TRUE]
                    ELSE PlayerState0]
    /\ totalTickets = RoundsPlayed
    /\ totalDraws = RoundsPlayed
    /\ balance = 0
    /\ plain = <<U32(1), U32(1), U32(1), U32(1), NearTop>>
    /\ acl = {<<h, id>> : h \in 1..5, id \in {This, Alice}}
    /\ events = <<>>
    /\ lastOp = [op |-> "startDraw", caller |-> Alice, result |-> OK]
    /\ drawn = [a \in Addr |-> IF a = Alice THEN RoundsPlayed ELSE 0]
    /\ rewardSum = [a \in Addr |-> IF a = Alice THEN NearTop ELSE U32(0)]
    /\ minter = <<Alice, Alice, Alice, Alice, Alice>>
    /\ seed = <<>>
    /\ received = [a \in Addr |-> IF a = Bob
                                  THEN RoundsPlayed * TICKET_PRICE ELSE 0]
    /\ ui = UI0

SpecWrap == InitWrap /\ [][Next]_vars

\* ------------------------------------------------------ derived notions
PointsOf(p) == Decrypt(players[p].encryptedPoints)

CountEvents(name, p) ==
    Cardinality({i \in 1..Len(events) : events[i] = <<name, p>>})

\* tickets of p bought and not yet drawn, according to the event log
Outstanding(p) == CountEvents("TicketPurchased", p) - CountEvents("DrawCompleted", p)

CipherFields == {"firstGuess", "secondGuess", "encryptedPoints",
                 "lastWinningFirst", "lastWinningSecond"}

GuessOne(p) == Decrypt(players[p].firstGuess)
GuessTwo(p) == Decrypt(players[p].secondGuess)
WinOne(p) == Decrypt(players[p].lastWinningFirst)
WinTwo(p) == Decrypt(players[p].lastWinningSecond)

Granted(h, p) == <<h, This>> \in acl /\ <<h, p>> \in acl

\* events of one kind in the log, whoever the player
CountAll(name) == Cardinality({i \in 1..Len(events) : events[i][1] = name})

\* total ether sent out by withdraw
Withdrawn == received[Deployer] + received[Alice] + received[Bob]

RewardValues == {U32(0), U32(100), U32(1000)}

\* the events of player p, in the order they were emitted
EventsOf(p) == SelectSeq(events, LAMBDA e : e[2] = p)

\* what a buyTicket of p with this payment and proof must answer, from p's
\* own successful calls so far
buyOutcome(p, value, proofValid) ==
    IF value # TICKET_PRICE THEN InvalidPayment
    ELSE IF Len(EventsOf(p)) % 2 = 1 THEN TicketAlreadyActive
    ELSE IF ~proofValid THEN ProofInvalid
    ELSE OK

\* what a startDraw of p must answer, from p's own successful calls so far
drawOutcome(p) ==
    IF Len(EventsOf(p)) % 2 = 1 THEN OK ELSE NoActiveTicket

\* the flags of p as getPlayerStatus returns them
FlagsOf(p) == <<players[p].hasTicket, players[p].hasResult, players[p].hasPoints>>

\* the players holding an active ticket
ActivePlayers == {p \in Addr : players[p].hasTicket}

\* the grants held by identity p
GrantsOf(p) == {g \in acl : g[2] = p}

\* ciphertexts created by transactions of p
MintedBy(p) == {h \in 1..Len(minter) : minter[h] = p}

\* ------------------------------------------------- fair scheduling
\* Behaviours in which the transactions a player submits are eventually
\* included: startDraw of each caller is weakly fair.  The bound on the event
\* log is applied to purchases only, each purchase keeping room in the log
\* for the draw of every active ticket, so that the bound never stands in the
\* way of a draw.
RoomForDraws == Len(events) + Cardinality(ActivePlayers) + 2 <= MaxEvents

NextLive ==
    \/ \E sender \in Callers, value \in Payments, ticket \in TicketSamples,
          boundTo \in Callers :
          /\ buyTicketCheck(sender, value, boundTo = sender) = OK => RoomForDraws
          /\ BuyTicket(sender, value, ticket, boundTo)
          /\ UNCHANGED ui
    \/ \E sender \in Callers, raw1 \in RawSamples, raw2 \in RawSamples :
          StartDraw(sender, raw1, raw2) /\ UNCHANGED ui
    \/ \E sender \in Callers, to \in Recipients,
          amount \in WithdrawAmounts, accepts \in BOOLEAN :
          Withdraw(sender, to, amount, accepts) /\ UNCHANGED ui

Fairness ==
    \A p \in Callers :
        WF_vars(\E raw1 \in RawSamples, raw2 \in RawSamples :
                   StartDraw(p, raw1, raw2) /\ UNCHANGED ui)

SpecLive == Init /\ [][NextLive]_vars /\ Fairness

\* ---------------------------------------------------------- the frontend
\* LotteryApp opened by one player.  Each await of a handler is a point where
\* other handlers may run, so a handler is one action per stretch between
\* awaits: ui.pc is where handlePurchase / handleDraw stands, pointsRequest
\* and resultsRequest hold the ciphertexts of a user decryption in flight.
\* The contract changes only through this frontend here.
address == Alice

ChainVars == <<players, totalTickets, totalDraws, balance, plain, acl, events,
               lastOp, drawn, rewardSum, minter, seed, received>>

\* the purchase button is enabled and clicked; the transaction is mined
handlePurchase(ticket) ==
    /\ ui.pc = "idle"
    /\ ~ui.status[1]
    /\ BuyTicket(address, ticketPrice(address), ticket, address)
    /\ ui' = IF buyTicketCheck(address, ticketPrice(address), TRUE) = OK
             THEN [ui EXCEPT !.pc = "buying"]
             ELSE ui

\* the draw button is enabled and clicked; the transaction is mined
handleDraw(raw1, raw2) ==
    /\ ui.pc = "idle"
    /\ ui.status[1]
    /\ StartDraw(address, raw1, raw2)
    /\ ui' = IF startDrawCheck(address) = OK
             THEN [ui EXCEPT !.pc = "drawing"]
             ELSE ui

\* tx.wait() returns in handlePurchase or handleDraw, which then clears the
\* decrypted values and starts the refetch
resetDecryptedViews ==
    /\ ui.pc \in {"buying", "drawing"}
    /\ ui' = [ui EXCEPT !.pc = "refreshing",
                        !.decryptedPoints = <<>>,
                        !.decryptedWinning = <<>>]
    /\ UNCHANGED ChainVars

\* the refetch of the queries returns; the handler ends
refreshPlayerState ==
    /\ ui.pc = "refreshing"
    /\ ui' = [ui EXCEPT !.pc = "idle",
                        !.status = getPlayerStatus(address, address),
                        !.pointsData = getEncryptedPoints(address, address),
                        !.resultData = getLastWinningNumbers(address, address)]
    /\ UNCHANGED ChainVars

\* the decrypt button of the score is clicked: the handler takes the
\* ciphertext last fetched and awaits the user decryption
handleDecryptPoints ==
    /\ ui.pointsRequest = <<>>
    /\ ui.pointsData[2]
    /\ ui' = [ui EXCEPT !.pointsRequest = <<ui.pointsData[1]>>]
    /\ UNCHANGED ChainVars

\* the decrypt button of the results is clicked
handleDecryptResults ==
    /\ ui.resultsRequest = <<>>
    /\ ui.resultData[3]
    /\ ui' = [ui EXCEPT !.resultsRequest = <<ui.resultData[1], ui.resultData[2]>>]
    /\ UNCHANGED ChainVars

\* what the user decryption of the handles returns to `address`: the
\* plaintexts, or <<>> when a handle is not granted (the request is rejected)
performDecryption(handles) ==
    IF \A i \in 1..Len(handles) : <<handles[i], address>> \in acl
    THEN [i \in 1..Len(handles) |-> Decrypt(handles[i])]
    ELSE <<>>

\* the user decryption of the score returns and handleDecryptPoints resumes
pointsDecrypted ==
    /\ ui.pointsRequest # <<>>
    /\ ui' = [ui EXCEPT !.pointsRequest = <<>>,
                        !.decryptedPoints =
                            IF performDecryption(ui.pointsRequest) # <<>>
                            THEN performDecryption(ui.pointsRequest)
                            ELSE @]
    /\ UNCHANGED ChainVars

\* the user decryption of the results returns and handleDecryptResults resumes
resultsDecrypted ==
    /\ ui.resultsRequest # <<>>
    /\ ui' = [ui EXCEPT !.resultsRequest = <<>>,
                        !.decryptedWinning =
                            IF performDecryption(ui.resultsRequest) # <<>>
                            THEN performDecryption(ui.resultsRequest)
                            ELSE @]
    /\ UNCHANGED ChainVars

NextUI ==
    \/ \E ticket \in TicketSamples : handlePurchase(ticket)
    \/ \E raw1 \in RawSamples, raw2 \in RawSamples : handleDraw(raw1, raw2)
    \/ resetDecryptedViews
    \/ refreshPlayerState
    \/ handleDecryptPoints
    \/ handleDecryptResults
    \/ pointsDecrypted
    \/ resultsDecrypted

SpecUI == Init /\ [][NextUI]_vars

\* ===================================================================== C1
\* C1: a buyTicket call by a player whose hasTicket is true fails with
\* TicketAlreadyActive even with the exact payment and a valid proof, and
\* leaves the records unchanged; so every player has at most one ticket
\* bought and not yet drawn, and has one exactly when hasTicket is true.
C1_SingleActiveTicket ==
    /\ [](\A p \in Addr :
            /\ players[p].hasTicket =>
                  buyTicketCheck(p, TICKET_PRICE, TRUE) = TicketAlreadyActive
            /\ Outstanding(p) \in {0, 1}
            /\ players[p].hasTicket <=> Outstanding(p) = 1)
    /\ [][(lastOp'.op = "buyTicket" /\ players[lastOp'.caller].hasTicket) =>
            \A t \in TicketSamples :
               BuyTicket(lastOp'.caller, TICKET_PRICE, t, lastOp'.caller)
                  => /\ lastOp'.result = TicketAlreadyActive
                     /\ players' = players
                     /\ events' = events]_vars

C1_Witness ==
    /\ lastOp.op = "buyTicket"
    /\ lastOp.result = TicketAlreadyActive
    /\ players[lastOp.caller].hasTicket
    /\ Outstanding(lastOp.caller) = 1

\* ===================================================================== C2
\* C2: every buyTicket call with a payment other than TICKET_PRICE (zero,
\* lower or higher) fails with InvalidPayment and leaves every player's
\* record unchanged, whatever the state, the ticket and the proof: a
\* buyTicket step that ends otherwise is not a step of any call with such a
\* payment, and one that ends in InvalidPayment changes no record.
C2_PriceGate ==
    [][lastOp'.op = "buyTicket" =>
          /\ lastOp'.result = InvalidPayment => players' = players
          /\ lastOp'.result # InvalidPayment =>
                \A v \in Payments \ {TICKET_PRICE}, t \in TicketSamples,
                   b \in Callers :
                      ~BuyTicket(lastOp'.caller, v, t, b)]_vars

C2_Witness ==
    /\ lastOp.op = "buyTicket"
    /\ lastOp.result = InvalidPayment
    /\ players[lastOp.caller].hasPoints
    /\ ~players[lastOp.caller].hasTicket

\* ===================================================================== C3
\* C3: for guesses and winning digits in 1..9 the reward of a draw is 1000
\* iff both positions match, 100 iff exactly one position matches and 0
\* otherwise, each guess being compared with the winning digit of its own
\* position only.  (After a player's first draw the points are that reward.)
RewardOf(g1, g2, w1, w2) ==
    IF g1 = w1 /\ g2 = w2 THEN U32(1000)
    ELSE IF (g1 = w1) # (g2 = w2) THEN U32(100)
    ELSE U32(0)

C3_RewardCorrect ==
    \A p \in Addr :
        (/\ drawn[p] = 1
         /\ {GuessOne(p), GuessTwo(p), WinOne(p), WinTwo(p)} \subseteq DigitValues)
        => /\ PointsOf(p) = RewardOf(GuessOne(p), GuessTwo(p), WinOne(p), WinTwo(p))
           /\ rewardSum[p] = PointsOf(p)

C3_Witness ==
    /\ drawn[Alice] = 1
    /\ GuessOne(Alice) = U32(7) /\ WinOne(Alice) = U32(2)
    /\ GuessTwo(Alice) = U32(2) /\ WinTwo(Alice) = U32(2)
    /\ PointsOf(Alice) = U32(100)

\* ===================================================================== C4
\* C4: both winning digits stored by a successful startDraw are in 1..9,
\* for every output of the 32-bit random source (0 and 2^32 - 1 included).
C4_DigitsInRange ==
    \A p \in Addr :
        drawn[p] >= 1 => /\ players[p].lastWinningFirst # 0
                         /\ players[p].lastWinningSecond # 0
                         /\ WinOne(p) \in DigitValues
                         /\ WinTwo(p) \in DigitValues

C4_Witness ==
    /\ drawn[Alice] = 1
    /\ seed = <<MaxRaw, <<0, 8>> >>
    /\ WinOne(Alice) = U32(4)
    /\ WinTwo(Alice) = U32(9)

\* ===================================================================== C5
\* C5: every decrypt capability ever granted is held either by the contract
\* itself or by the player whose transaction created the ciphertext, and the
\* ciphertexts in a player's record were all created by that player's
\* transactions; no third identity holds a capability on them.
C5_NoThirdPartyGrant ==
    /\ \A g \in acl : g[2] = This \/ g[2] = minter[g[1]]
    /\ \A p \in Addr : \A f \in CipherFields :
          players[p][f] # 0 => minter[players[p][f]] = p

C5_Witness ==
    /\ drawn[Alice] >= 1
    /\ drawn[Deployer] >= 1
    /\ <<players[Alice].encryptedPoints, Alice>> \in acl
    /\ <<players[Deployer].lastWinningFirst, Deployer>> \in acl
    /\ <<players[Deployer].firstGuess, Deployer>> \in acl

\* ===================================================================== C6
\* C6: every ciphertext stored in a written field of a player's record (the
\* guesses after a purchase, the winning digits and the points after a draw)
\* is granted to both the contract itself and the owning player, including
\* the new points ciphertext of every later draw.
C6_StoredCiphertextsGranted ==
    \A p \in Addr :
        /\ CountEvents("TicketPurchased", p) > 0 =>
              players[p].firstGuess # 0 /\ players[p].secondGuess # 0
        /\ drawn[p] > 0 =>
              /\ players[p].lastWinningFirst # 0
              /\ players[p].lastWinningSecond # 0
              /\ players[p].encryptedPoints # 0
        /\ \A f \in CipherFields :
              players[p][f] # 0 => Granted(players[p][f], p)

C6_Witness ==
    \E p \in Callers :
        /\ drawn[p] = 2
        /\ lastOp = [op |-> "startDraw", caller |-> p, result |-> OK]
        /\ players[p].encryptedPoints = Len(plain)
        /\ Granted(players[p].encryptedPoints, p)

\* ===================================================================== C7
\* C7: after N successful draws by a player the plaintext of encryptedPoints
\* equals the sum of the N rewards computed in those draws.
C7_PointsEqualRewardSum ==
    \A p \in Addr :
        /\ players[p].hasPoints => PointsOf(p) = rewardSum[p]
        /\ drawn[p] >= 1 => players[p].hasPoints

\* ===================================================================== C8
\* C8: the plaintext of a player's encryptedPoints never decreases, in any
\* step of any operation.
C8_PointsMonotonic ==
    [][\A p \in Addr : U32Leq(PointsOf(p), PointsOf(p)')]_vars

\* ===================================================================== C9
\* C9 as stated: hasResult, once true, never reverts to false.
C9_HasResultNeverReverts ==
    [][\A p \in Addr : players[p].hasResult => players'[p].hasResult]_vars

\* C9 as amended: hasResult, once true, stays true under every operation
\* except a successful buyTicket by that same player, which resets it to
\* false.
C9_HasResultUntilNextPurchase ==
    [][\A p \in Addr :
          /\ (players[p].hasResult /\ ~players'[p].hasResult)
                => lastOp' = [op |-> "buyTicket", caller |-> p, result |-> OK]
          /\ (lastOp' = [op |-> "buyTicket", caller |-> p, result |-> OK])
                => ~players'[p].hasResult]_vars

C9_Witness ==
    /\ lastOp = [op |-> "buyTicket", caller |-> Alice, result |-> OK]
    /\ drawn[Alice] = 1
    /\ players[Alice].hasPoints
    /\ ~players[Alice].hasResult

\* ==================================================================== C10
\* C10: hasPoints, once true, never reverts to false, and it is true exactly
\* when the player has completed at least one successful startDraw.
C10_HasPointsIffDrawn ==
    /\ [](\A p \in Addr : players[p].hasPoints <=> drawn[p] >= 1)
    /\ [][\A p \in Addr : players[p].hasPoints => players'[p].hasPoints]_vars

C10_Witness ==
    /\ players[Alice].hasPoints
    /\ players[Alice].hasTicket
    /\ drawn[Alice] = 1
    /\ ~players[Deployer].hasPoints
    /\ players[Deployer].hasTicket

\* ==================================================================== C11
\* C11: withdraw called by anyone other than the owner fails with NotOwner,
\* whatever the recipient and the amount (a null recipient and an amount
\* above the balance included), and leaves the held balance unchanged.
C11_NonOwnerWithdrawFails ==
    /\ [](\A sender \in Addr \ {owner}, to \in Recipients \cup Addr,
             amount \in WithdrawAmounts \cup {0, balance, balance + 1},
             accepts \in BOOLEAN :
             withdrawCheck(sender, to, amount, accepts) = NotOwner)
    /\ [][(lastOp'.op = "withdraw" /\ lastOp'.caller # owner) =>
             /\ lastOp'.result = NotOwner
             /\ balance' = balance
             /\ received' = received]_vars

C11_Witness ==
    /\ lastOp = [op |-> "withdraw", caller |-> Alice, result |-> NotOwner]
    /\ balance = 2 * TICKET_PRICE
    /\ Withdrawn = 0

\* ==================================================================== C12
\* C12 as stated: withdraw called by the owner with an amount not above the
\* held balance succeeds, takes exactly the amount off the held balance and
\* credits the recipient with exactly the amount.
C12_WithinBalanceSucceeds ==
    [][(lastOp'.op = "withdraw" /\ lastOp'.caller = owner) =>
          \A to \in Recipients, amount \in WithdrawAmounts, accepts \in BOOLEAN :
             (Withdraw(owner, to, amount, accepts) /\ amount <= balance)
                => /\ lastOp'.result = OK
                   /\ balance' = balance - amount
                   /\ to \in Addr /\ received'[to] = received[to] + amount]_vars

\* C12 as amended: withdraw called by the owner with an amount not above the
\* held balance, to a recipient that is not the null address and accepts the
\* transfer, succeeds, takes exactly the amount off the held balance and
\* credits the recipient with exactly the amount.
C12_OwnerWithdrawTransfers ==
    [][(lastOp'.op = "withdraw" /\ lastOp'.caller = owner) =>
          \A to \in Recipients, amount \in WithdrawAmounts, accepts \in BOOLEAN :
             (/\ Withdraw(owner, to, amount, accepts)
              /\ amount <= balance
              /\ to # NullAddress
              /\ accepts)
                => /\ lastOp'.result = OK
                   /\ balance' = balance - amount
                   /\ received'[to] = received[to] + amount
                   /\ \A a \in Addr \ {to} : received'[a] = received[a]]_vars

C12_Witness ==
    /\ lastOp = [op |-> "withdraw", caller |-> owner, result |-> OK]
    /\ received[Bob] = TICKET_PRICE
    /\ balance = TICKET_PRICE

\* ==================================================================== C13
\* C13: withdraw called by the owner fails with InvalidRecipient when the
\* recipient is the null address and, the recipient being acceptable, with
\* InsufficientBalance when the amount exceeds the held balance; in both
\* cases nothing is transferred, and the held balance never goes below zero.
C13_OwnerWithdrawRejected ==
    /\ [](balance >= 0)
    /\ [][(lastOp'.op = "withdraw" /\ lastOp'.caller = owner) =>
             \A to \in Recipients, amount \in WithdrawAmounts, accepts \in BOOLEAN :
                Withdraw(owner, to, amount, accepts) =>
                   /\ to = NullAddress => lastOp'.result = InvalidRecipient
                   /\ (to # NullAddress /\ amount > balance)
                         => lastOp'.result = InsufficientBalance
                   /\ (to = NullAddress \/ amount > balance)
                         => (balance' = balance /\ received' = received)]_vars

C13_Witness ==
    /\ lastOp = [op |-> "withdraw", caller |-> owner, result |-> InsufficientBalance]
    /\ balance = TICKET_PRICE
    /\ received[Bob] = TICKET_PRICE

\* ==================================================================== C14
\* C14: startDraw called by a player whose hasTicket is false fails with
\* NoActiveTicket and draws nothing; a successful startDraw leaves the ticket
\* consumed, so a second startDraw on the same ticket fails, and no player
\* has more successful draws than tickets bought.
C14_NoDrawWithoutTicket ==
    /\ [](\A p \in Addr :
            /\ ~players[p].hasTicket => startDrawCheck(p) = NoActiveTicket
            /\ drawn[p] <= CountEvents("TicketPurchased", p)
            /\ drawn[p] = CountEvents("DrawCompleted", p))
    /\ [][lastOp'.op = "startDraw" =>
            /\ ~players[lastOp'.caller].hasTicket =>
                  /\ lastOp'.result = NoActiveTicket
                  /\ players' = players
                  /\ totalDraws' = totalDraws
                  /\ drawn' = drawn
                  /\ events' = events
                  /\ plain' = plain
            /\ lastOp'.result = OK =>
                  /\ players[lastOp'.caller].hasTicket
                  /\ ~players'[lastOp'.caller].hasTicket]_vars

C14_Witness ==
    /\ lastOp = [op |-> "startDraw", caller |-> Alice, result |-> NoActiveTicket]
    /\ drawn[Alice] = 1
    /\ CountEvents("TicketPurchased", Alice) = 1
    /\ players[Alice].hasResult
    /\ ~players[Alice].hasTicket

\* ==================================================================== C15
\* C15: every successful startDraw leaves the caller with hasTicket false,
\* hasResult true and hasPoints true, and raises totalDraws by exactly one.
C15_DrawSetsFlags ==
    [][(lastOp'.op = "startDraw" /\ lastOp'.result = OK) =>
          /\ ~players'[lastOp'.caller].hasTicket
          /\ players'[lastOp'.caller].hasResult
          /\ players'[lastOp'.caller].hasPoints
          /\ totalDraws' = totalDraws + 1]_vars

C15_Witness ==
    /\ lastOp = [op |-> "startDraw", caller |-> Alice, result |-> OK]
    /\ drawn[Alice] = 2
    /\ totalDraws = 2
    /\ ~players[Alice].hasTicket
    /\ players[Alice].hasResult
    /\ players[Alice].hasPoints

\* ==================================================================== C16
\* C16: totalTickets is the number of successful buyTicket calls and
\* totalDraws the number of successful startDraw calls since construction;
\* each success raises its counter by exactly one, and no failed call and no
\* withdraw changes either counter.
C16_CountersCountSuccesses ==
    /\ [](/\ totalTickets = CountAll("TicketPurchased")
          /\ totalDraws = CountAll("DrawCompleted")
          /\ totalDraws = drawn[Deployer] + drawn[Alice] + drawn[Bob])
    /\ [][/\ (lastOp'.op = "buyTicket" /\ lastOp'.result = OK)
                => (totalTickets' = totalTickets + 1 /\ totalDraws' = totalDraws)
          /\ (lastOp'.op = "startDraw" /\ lastOp'.result = OK)
                => (totalDraws' = totalDraws + 1 /\ totalTickets' = totalTickets)
          /\ (lastOp'.result # OK \/ lastOp'.op = "withdraw")
                => (totalTickets' = totalTickets /\ totalDraws' = totalDraws)]_vars

C16_Witness ==
    /\ totalTickets = 3
    /\ totalDraws = 1
    /\ lastOp.op = "buyTicket"
    /\ lastOp.result = TicketAlreadyActive

\* ==================================================================== C17
\* C17: an operation that fails, whatever the reason (InvalidPayment,
\* TicketAlreadyActive, NoActiveTicket, ProofInvalid, NotOwner,
\* InvalidRecipient, InsufficientBalance, TransferFailed), leaves the whole
\* state as it was: player records, counters, held balance (an attached
\* payment is not kept), ciphertexts, grants, event log and the ether sent
\* out to recipients.
C17_FailureChangesNothing ==
    [][lastOp'.result # OK =>
          /\ players' = players
          /\ totalTickets' = totalTickets
          /\ totalDraws' = totalDraws
          /\ balance' = balance
          /\ plain' = plain
          /\ acl' = acl
          /\ events' = events
          /\ received' = received]_vars

C17_Witness ==
    /\ lastOp = [op |-> "withdraw", caller |-> owner, result |-> TransferFailed]
    /\ balance = 2 * TICKET_PRICE
    /\ totalDraws = 1
    /\ Withdrawn = 0

\* ==================================================================== C18
\* C18: the held balance equals TICKET_PRICE times the number of successful
\* buyTicket calls minus the sum of the amounts of the successful withdraw
\* calls; startDraw does not change the balance.
C18_BalanceEquation ==
    /\ [](balance = TICKET_PRICE * CountAll("TicketPurchased") - Withdrawn)
    /\ [][lastOp'.op = "startDraw" => balance' = balance]_vars

C18_Witness ==
    /\ lastOp = [op |-> "startDraw", caller |-> Alice, result |-> OK]
    /\ CountAll("TicketPurchased") = 2
    /\ Withdrawn = TICKET_PRICE
    /\ balance = TICKET_PRICE

\* ==================================================================== C19
\* C19: what getTicket, getLastWinningNumbers, getEncryptedPoints,
\* getPlayerStatus and stats return depends on the stored state and on the
\* queried address only: any two callers asking about the same address in
\* the same state get the same answer.
C19_ViewsIgnoreCaller ==
    \A c1 \in Addr, c2 \in Addr :
        /\ stats(c1) = stats(c2)
        /\ \A user \in Addr :
              /\ getTicket(c1, user) = getTicket(c2, user)
              /\ getLastWinningNumbers(c1, user) = getLastWinningNumbers(c2, user)
              /\ getEncryptedPoints(c1, user) = getEncryptedPoints(c2, user)
              /\ getPlayerStatus(c1, user) = getPlayerStatus(c2, user)

C19_Witness ==
    /\ players[Alice].hasPoints
    /\ players[Alice].hasTicket
    /\ ~players[Deployer].hasPoints
    /\ getEncryptedPoints(Deployer, Alice) = <<players[Alice].encryptedPoints, TRUE>>
    /\ getEncryptedPoints(Bob, Alice) # getEncryptedPoints(Bob, Deployer)
    /\ getTicket(Bob, Alice) # getTicket(Bob, Deployer)

\* ==================================================================== C20
\* C20: the reward computed by a draw is 0, 100 or 1000 and nothing else,
\* for every combination of 32-bit guesses and winning digits, guesses
\* outside 1..9 included.
C20_RewardInRange ==
    /\ drawn[Alice] = 1 => PointsOf(Alice) \in RewardValues
    /\ \A w1 \in GuessDomain, w2 \in GuessDomain :
          _calculateReward(GuessOne(Alice), GuessTwo(Alice), w1, w2) \in RewardValues

C20_Witness ==
    /\ drawn[Alice] = 1
    /\ GuessOne(Alice) = <<65535, 65535>>
    /\ GuessTwo(Alice) = WinTwo(Alice)
    /\ PointsOf(Alice) = U32(100)

\* ==================================================================== C21
\* C21: every guess stored by a successful buyTicket is a digit from 1 to 9;
\* a ticket with a choice outside 1..9 never enters a player's record.
C21_GuessesAreDigits ==
    \A p \in Addr :
        players[p].firstGuess # 0 =>
            (GuessOne(p) \in DigitValues /\ GuessTwo(p) \in DigitValues)

\* ==================================================================== C22
\* C22: after a successful buyTicket with guesses (g1, g2), getTicket for the
\* buyer returns hasTicket = true and two ciphertexts that the buyer may
\* decrypt and that decrypt to exactly g1 and g2; the two ciphertexts and
\* their plaintexts stay what getTicket returns until that buyer's next
\* successful buyTicket.
C22_TicketRoundTrip ==
    [][/\ \A c \in Callers :
             lastOp' = [op |-> "buyTicket", caller |-> c, result |-> OK] =>
                \A t \in TicketSamples :
                   BuyTicket(c, TICKET_PRICE, t, c) =>
                      /\ getTicket(c, c)' = <<players'[c].firstGuess,
                                              players'[c].secondGuess, TRUE>>
                      /\ GuessOne(c)' = t[1]
                      /\ GuessTwo(c)' = t[2]
                      /\ <<players'[c].firstGuess, c>> \in acl'
                      /\ <<players'[c].secondGuess, c>> \in acl'
       /\ \A p \in Addr :
             (players[p].firstGuess # 0
                /\ <<players, plain, acl>>' # <<players, plain, acl>>
                /\ lastOp' # [op |-> "buyTicket", caller |-> p, result |-> OK]) =>
                   /\ players'[p].firstGuess = players[p].firstGuess
                   /\ players'[p].secondGuess = players[p].secondGuess
                   /\ GuessOne(p)' = GuessOne(p)
                   /\ GuessTwo(p)' = GuessTwo(p)
                   /\ <<players'[p].firstGuess, p>> \in acl'
                   /\ <<players'[p].secondGuess, p>> \in acl']_vars

C22_Witness ==
    /\ lastOp = [op |-> "startDraw", caller |-> Alice, result |-> OK]
    /\ getTicket(Alice, Alice) = <<1, 2, FALSE>>
    /\ GuessOne(Alice) = U32(4)
    /\ GuessTwo(Alice) = U32(10)
    /\ <<1, Alice>> \in acl
    /\ <<2, Alice>> \in acl

\* ==================================================================== C23
\* C23: the reward accrued by a successful startDraw is _calculateReward of
\* the guesses in the caller's record when the call starts (those of the
\* caller's latest successful buyTicket) and of the two winning digits this
\* call generates, which are the values then stored in lastWinningFirst and
\* lastWinningSecond under fresh ciphertexts; the guesses are left as they
\* were.
C23_RewardFromCurrentTicket ==
    [][\A c \in Callers :
          lastOp' = [op |-> "startDraw", caller |-> c, result |-> OK] =>
             LET reward == _calculateReward(GuessOne(c), GuessTwo(c),
                                            WinOne(c)', WinTwo(c)')
             IN  /\ players'[c].lastWinningFirst = Len(plain) + 1
                 /\ players'[c].lastWinningSecond = Len(plain) + 2
                 /\ plain'[Len(plain) + 3] = reward
                 /\ PointsOf(c)' = accruePoints(players[c].hasPoints,
                                                PointsOf(c), reward)
                 /\ rewardSum'[c] = ExactAdd(rewardSum[c], reward)
                 /\ GuessOne(c)' = GuessOne(c)
                 /\ GuessTwo(c)' = GuessTwo(c)]_vars

C23_Witness ==
    /\ lastOp = [op |-> "startDraw", caller |-> Alice, result |-> OK]
    /\ drawn[Alice] = 2
    /\ Len(plain) = 11
    /\ plain[1] # plain[6]
    /\ plain[3] # plain[8]
    /\ plain[10] = _calculateReward(plain[6], plain[7], plain[8], plain[9])
    /\ plain[10] # _calculateReward(plain[1], plain[2], plain[8], plain[9])
    /\ plain[10] # _calculateReward(plain[6], plain[7], plain[3], plain[4])

\* ==================================================================== C24
\* C24: the events of each player alternate strictly, starting with a
\* purchase: TicketPurchased, DrawCompleted, TicketPurchased, ...; so every
\* draw consumes exactly one purchase of its own, and every draw computes
\* one reward and accrues it once (two ciphertexts per purchase, two digits
\* and one reward per draw, one sum per draw after the first).
C24_EventsAlternate ==
    \A p \in Addr :
        /\ \A i \in 1..Len(EventsOf(p)) :
              EventsOf(p)[i][1] = IF i % 2 = 1 THEN "TicketPurchased"
                                               ELSE "DrawCompleted"
        /\ drawn[p] = Len(EventsOf(p)) \div 2
        /\ Cardinality(MintedBy(p)) =
              2 * CountEvents("TicketPurchased", p) + 3 * drawn[p]
                 + (IF drawn[p] > 0 THEN drawn[p] - 1 ELSE 0)

C24_Witness ==
    /\ Len(EventsOf(Alice)) = 3
    /\ Len(EventsOf(Deployer)) = 1
    /\ events[2] = <<"TicketPurchased", Deployer>>
    /\ drawn[Alice] = 1
    /\ players[Alice].hasTicket

\* ==================================================================== C25
\* C25: an operation called by A, whether it succeeds or fails, leaves the
\* record of every other player B and the grants held by B unchanged, and
\* the plaintexts behind B's ciphertexts too; a record changes only in a
\* call of its own player.
C25_OtherPlayersUntouched ==
    [][\A b \in Addr :
          b # lastOp'.caller =>
             /\ players'[b] = players[b]
             /\ acl' # acl => GrantsOf(b)' = GrantsOf(b)
             /\ plain' # plain =>
                   \A f \in CipherFields :
                      Decrypt(players[b][f])' = Decrypt(players[b][f])]_vars

C25_Witness ==
    /\ lastOp = [op |-> "startDraw", caller |-> Alice, result |-> OK]
    /\ drawn[Alice] = 1
    /\ players[Deployer].hasTicket
    /\ GrantsOf(Deployer) = {<<players[Deployer].firstGuess, Deployer>>,
                             <<players[Deployer].secondGuess, Deployer>>}
    /\ Cardinality(GrantsOf(Alice)) = 5

\* ==================================================================== C26
\* C26: a successful buyTicket replaces firstGuess and secondGuess by the two
\* ciphertexts it imports and leaves encryptedPoints, hasPoints,
\* lastWinningFirst and lastWinningSecond unchanged; a successful startDraw
\* replaces lastWinningFirst and lastWinningSecond by the two ciphertexts it
\* generates, makes encryptedPoints a new ciphertext and leaves firstGuess
\* and secondGuess unchanged; no step changes the guesses of a player whose
\* hasTicket is true.
C26_FieldFrame ==
    [][/\ \A c \in Callers :
             /\ lastOp' = [op |-> "buyTicket", caller |-> c, result |-> OK] =>
                   /\ players'[c].firstGuess = Len(plain) + 1
                   /\ players'[c].secondGuess = Len(plain) + 2
                   /\ players'[c].encryptedPoints = players[c].encryptedPoints
                   /\ players'[c].hasPoints = players[c].hasPoints
                   /\ players'[c].lastWinningFirst = players[c].lastWinningFirst
                   /\ players'[c].lastWinningSecond = players[c].lastWinningSecond
                   /\ PointsOf(c)' = PointsOf(c)
                   /\ WinOne(c)' = WinOne(c)
                   /\ WinTwo(c)' = WinTwo(c)
             /\ lastOp' = [op |-> "startDraw", caller |-> c, result |-> OK] =>
                   /\ players'[c].lastWinningFirst = Len(plain) + 1
                   /\ players'[c].lastWinningSecond = Len(plain) + 2
                   /\ players'[c].encryptedPoints > Len(plain) + 2
                   /\ players'[c].encryptedPoints <= Len(plain')
                   /\ players'[c].firstGuess = players[c].firstGuess
                   /\ players'[c].secondGuess = players[c].secondGuess
                   /\ GuessOne(c)' = GuessOne(c)
                   /\ GuessTwo(c)' = GuessTwo(c)
       /\ <<players, plain>>' # <<players, plain>> =>
          \A p \in Addr :
             players[p].hasTicket =>
                /\ players'[p].firstGuess = players[p].firstGuess
                /\ players'[p].secondGuess = players[p].secondGuess
                /\ GuessOne(p)' = GuessOne(p)
                /\ GuessTwo(p)' = GuessTwo(p)]_vars

C26_Witness ==
    /\ lastOp = [op |-> "buyTicket", caller |-> Alice, result |-> OK]
    /\ drawn[Alice] = 1
    /\ players[Alice].hasPoints
    /\ players[Alice].lastWinningFirst = 3
    /\ players[Alice].lastWinningSecond = 4
    /\ players[Alice].encryptedPoints = 5
    /\ players[Alice].firstGuess = 6
    /\ players[Alice].secondGuess = 7
    /\ GuessOne(Alice) # plain[1]

\* ==================================================================== C27
\* C27: whether a player's buyTicket or startDraw succeeds, and the reason
\* when it fails, is determined by the call's payment and proof and by that
\* player's own earlier calls: it is a function of the player's own events,
\* and no call of another player and no withdrawal changes it.
C27_OutcomeIndependent ==
    /\ [](\A p \in Addr :
            /\ startDrawCheck(p) = drawOutcome(p)
            /\ \A v \in Payments, proofValid \in BOOLEAN :
                  buyTicketCheck(p, v, proofValid) = buyOutcome(p, v, proofValid))
    /\ [][/\ lastOp'.op = "startDraw"
                => lastOp'.result = drawOutcome(lastOp'.caller)
          /\ lastOp'.op = "buyTicket"
                => \E v \in Payments, proofValid \in BOOLEAN :
                      lastOp'.result = buyOutcome(lastOp'.caller, v, proofValid)
          /\ <<players, totalTickets, totalDraws, balance, plain, acl, events>>'
                # <<players, totalTickets, totalDraws, balance, plain, acl, events>>
                => \A p \in Addr :
                      (lastOp'.caller # p \/ lastOp'.op = "withdraw") =>
                         /\ EventsOf(p)' = EventsOf(p)
                         /\ startDrawCheck(p)' = startDrawCheck(p)
                         /\ \A v \in Payments, proofValid \in BOOLEAN :
                               buyTicketCheck(p, v, proofValid)' =
                                  buyTicketCheck(p, v, proofValid)]_vars

C27_Witness ==
    /\ lastOp = [op |-> "startDraw", caller |-> Deployer, result |-> NoActiveTicket]
    /\ EventsOf(Deployer) = <<>>
    /\ players[Alice].hasTicket
    /\ drawn[Alice] = 1
    /\ Withdrawn = TICKET_PRICE
    /\ totalTickets > totalDraws

\* ==================================================================== C28
\* C28: buyTicket checks the payment, then the active ticket, then the
\* proof: with a wrong payment it fails with InvalidPayment even when the
\* caller has an active ticket or the proof is invalid, and with the exact
\* payment and an active ticket it fails with TicketAlreadyActive even when
\* the proof is invalid.
C28_CheckOrder ==
    /\ [](\A p \in Addr, proofValid \in BOOLEAN :
            /\ \A v \in Payments \ {TICKET_PRICE} :
                  buyTicketCheck(p, v, proofValid) = InvalidPayment
            /\ players[p].hasTicket =>
                  buyTicketCheck(p, TICKET_PRICE, proofValid) = TicketAlreadyActive)
    /\ [][lastOp'.op = "buyTicket" =>
            /\ lastOp'.result # InvalidPayment =>
                  \A v \in Payments \ {TICKET_PRICE}, t \in TicketSamples,
                     b \in Callers :
                        ~BuyTicket(lastOp'.caller, v, t, b)
            /\ (players[lastOp'.caller].hasTicket
                  /\ lastOp'.result \notin {InvalidPayment, TicketAlreadyActive}) =>
                  \A v \in Payments, t \in TicketSamples, b \in Callers :
                     ~BuyTicket(lastOp'.caller, v, t, b)]_vars

C28_Witness ==
    /\ lastOp = [op |-> "buyTicket", caller |-> Alice, result |-> InvalidPayment]
    /\ players[Alice].hasTicket
    /\ players[Alice].hasPoints
    /\ buyTicketCheck(Alice, TICKET_PRICE, FALSE) = TicketAlreadyActive
    /\ buyTicketCheck(Alice, TICKET_PRICE + 1, FALSE) = InvalidPayment

\* ==================================================================== C29
\* C29: in every reachable state the flags (hasTicket, hasResult, hasPoints)
\* of every player are one of (F,F,F), (T,F,F), (F,T,T), (T,F,T); hasTicket
\* and hasResult are never both true and hasResult implies hasPoints.
C29_FlagTriples ==
    \A p \in Addr :
        /\ FlagsOf(p) \in {<<FALSE, FALSE, FALSE>>, <<TRUE, FALSE, FALSE>>,
                           <<FALSE, TRUE, TRUE>>, <<TRUE, FALSE, TRUE>>}
        /\ ~(players[p].hasTicket /\ players[p].hasResult)
        /\ players[p].hasResult => players[p].hasPoints

C29_Witness ==
    /\ FlagsOf(Alice) = <<TRUE, FALSE, TRUE>>
    /\ FlagsOf(Deployer) = <<TRUE, FALSE, FALSE>>
    /\ FlagsOf(Bob) = <<FALSE, FALSE, FALSE>>

\* ==================================================================== C30
\* C30: in every reachable state totalTickets minus totalDraws is the number
\* of players whose hasTicket is true; so totalDraws never exceeds
\* totalTickets.
C30_OutstandingTickets ==
    /\ totalTickets - totalDraws = Cardinality(ActivePlayers)
    /\ totalDraws <= totalTickets

C30_Witness ==
    /\ totalTickets = 3
    /\ totalDraws = 1
    /\ ActivePlayers = {Deployer, Alice}

\* ==================================================================== C31
\* C31: the lifecycle never gets stuck.  In every reachable state and for
\* every player exactly one of the two player operations can succeed:
\* buyTicket with the exact payment and a valid proof iff hasTicket is false,
\* startDraw iff hasTicket is true, whatever the balance, the counters and
\* the other players; and when the player's calls are scheduled fairly every
\* purchased ticket is eventually drawn, after which a ticket can be bought
\* again.
C31_LifecycleNeverStuck ==
    /\ [](\A p \in Addr :
            /\ buyTicketCheck(p, TICKET_PRICE, TRUE) = OK <=> ~players[p].hasTicket
            /\ startDrawCheck(p) = OK <=> players[p].hasTicket
            /\ buyTicketCheck(p, TICKET_PRICE, TRUE) = OK <=> startDrawCheck(p) # OK)
    /\ \A p \in Callers :
          players[p].hasTicket ~>
             (~players[p].hasTicket /\ buyTicketCheck(p, TICKET_PRICE, TRUE) = OK)

C31_Witness ==
    /\ lastOp = [op |-> "startDraw", caller |-> Alice, result |-> OK]
    /\ drawn[Alice] = 2
    /\ balance = 0
    /\ Withdrawn = 2 * TICKET_PRICE
    /\ buyTicketCheck(Alice, TICKET_PRICE, TRUE) = OK

\* ==================================================================== C32
\* C32: in the frontend a decrypted score or a decrypted winning pair that is
\* displayed (not null) is the plaintext of the ciphertext currently fetched
\* from the contract; a value decrypted before a purchase or a draw was
\* confirmed is never shown after it, also when the user decryption started
\* before the confirmation and returns after it.
C32_DisplayedValuesCurrent ==
    /\ ui.decryptedPoints # <<>> =>
          ui.decryptedPoints = <<Decrypt(ui.pointsData[1])>>
    /\ ui.decryptedWinning # <<>> =>
          ui.decryptedWinning = <<Decrypt(ui.resultData[1]),
                                  Decrypt(ui.resultData[2])>>

====
